---- MODULE Spec2Model ----
(***************************************************************************)
(* A model of the Information Gain Network interview                       *)
(* (src/src/runners/diagnostic_engine.py) and of the belief update it is   *)
(* built on (src/src/agents/diagnoser_agent.py).                           *)
(*                                                                         *)
(* Numbers.  A probability is the exact rational  w / den : a dict of      *)
(* probabilities is  [items |-> <<label, w>> pairs in insertion order,     *)
(* den |-> common denominator].  Python's float rounding (about 1e-16 per  *)
(* operation) is not modelled; it is ten orders of magnitude below the     *)
(* 1e-6 tolerance the interview's properties are stated with.              *)
(***************************************************************************)
EXTENDS Integers, Sequences, FiniteSets, TLC

(***************************************************************************)
(* Bounds of the model.                                                    *)
(***************************************************************************)
\* The Oracle writes probabilities as multiples of 1/ProbScale.
ProbScale == 2
\* Largest max_diseases an interview is configured with.
MaxDiseases == 4
\* Largest max_questions an interview is configured with.
MaxQuestions == 3
\* Largest turns_before_narrowing an interview is configured with.
MaxTurnsBeforeNarrowing == 2
\* Largest number of questions the Oracle returns for the initial pool.
MaxPool == 3
\* Largest num_diseases update_probabilities is called with on its own.
MaxNumDiseases == 11

(***************************************************************************)
(* Program constants.                                                      *)
(***************************************************************************)
\* probabilities[disease] = 0.0001, as 1/PadDen
PadDen == 10000
\* questions_per_disease: int = 2
QuestionsPerDisease == 2
\* min_diseases_to_keep = 1
MinDiseasesToKeep == 1
\* "if len(questions_to_evaluate) <= 2": the sequential path
SequentialLimit == 2
\* max_workers: int = 2
MaxWorkers == 2
\* confidence_threshold: float = 0.75, as ThresholdNum / ThresholdDen
ThresholdNum == 3
ThresholdDen == 4

\* POTENTIAL_SKIN_DIAGNOSES
POTENTIAL_SKIN_DIAGNOSES ==
  << "Warts", "Psoriasis", "Eczema (Atopic Dermatitis)", "Contact Dermatitis",
     "Seborrheic Keratosis", "Actinic Keratosis", "Lichen Planus",
     "Folliculitis", "Basal Cell Carcinoma", "Squamous Cell Carcinoma" >>

\* cases[0]["diagnosis"]
GroundTruth == "Warts"

\* case["diagnosis"].lower() in label.lower(): the labels of the model that
\* contain the ground truth as a substring, whatever the case of the letters.
MatchesGroundTruth(label) == label \in {"Warts", "Plantar warts"}

(***************************************************************************)
(* Ordered dicts of label -> weight.                                       *)
(***************************************************************************)
\* F(v) with v evaluated once, as Python evaluates an argument before the
\* call: the value of F is the same, only the work to get it differs.  In an
\* action, "\E x \in {v} :" names the value v in the same way.
With(v, F(_)) == CHOOSE r \in {F(x) : x \in {v}} : TRUE

Keys(items) == [i \in 1..Len(items) |-> items[i][1]]

KeySet(items) == {items[i][1] : i \in 1..Len(items)}

Has(items, k) == \E i \in 1..Len(items) : items[i][1] = k

\* dict.get(k, default)
Get(items, k, default) ==
  IF Has(items, k)
  THEN items[CHOOSE i \in 1..Len(items) : items[i][1] = k][2]
  ELSE default

\* dict[k] = v: a new key goes last, an old key keeps its place
Put(items, k, v) ==
  IF Has(items, k)
  THEN [i \in 1..Len(items) |-> IF items[i][1] = k THEN <<k, v>> ELSE items[i]]
  ELSE Append(items, <<k, v>>)

RECURSIVE SumW(_)
\* sum(d.values()), in units of 1/den
SumW(items) ==
  IF Len(items) = 0 THEN 0 ELSE items[1][2] + SumW(Tail(items))

\* The items in insertion order, unsorted: C21_RetainedOutrankEvicted tells it
\* from the sort of the code
SortedAsInserted(items0) == items0

\* sorted(d.items(), key=lambda x: x[1], reverse=True): stable, so equal
\* weights keep their insertion order
SortedDesc(items0) ==
  With(items0, LAMBDA items :
  LET n == Len(items)
      Rank(i) == Cardinality({j \in 1..n : items[j][2] > items[i][2]})
                 + Cardinality({j \in 1..(i - 1) : items[j][2] = items[i][2]})
                 + 1
  IN  [r \in 1..n |-> items[CHOOSE i \in 1..n : Rank(i) = r]])

Prefix(s, n) == SubSeq(s, 1, IF n < Len(s) THEN n ELSE Len(s))

RECURSIVE Gcd(_, _)
Gcd(a, b) == IF b = 0 THEN a ELSE Gcd(b, a % b)

RECURSIVE GcdW(_, _)
GcdW(items, g) ==
  IF Len(items) = 0 THEN g ELSE GcdW(Tail(items), Gcd(g, items[1][2]))

\* The same probabilities over the least common denominator: every dict of the
\* model is kept in this form, so that equal distributions are equal values.
Reduce(p) ==
  With(p, LAMBDA q :
    With(GcdW(q.items, q.den), LAMBDA g :
      [items |-> [i \in 1..Len(q.items) |->
                    <<q.items[i][1], q.items[i][2] \div g>>],
       den |-> q.den \div g]))

\* Whether the probabilities of p sum to 1.0
SumsToOne(p) == SumW(p.items) = p.den

EmptyDict == [items |-> << >>, den |-> 1]

(***************************************************************************)
(* The Oracle's answer to a belief-update prompt.  A response is           *)
(*   [reasoning |-> whether the text has a non-empty part before a blank   *)
(*                  line (content.split("\n\n")),                          *)
(*    lines     |-> the lines of the part that is parsed],                 *)
(* and a line is [pipe |-> it holds a '|', disease |-> the stripped text   *)
(* before the first '|', isfloat |-> float() accepts the text after it,    *)
(* prob |-> that float, in units of 1/ProbScale].                          *)
(***************************************************************************)
Line(disease, prob) ==
  [pipe |-> TRUE, disease |-> disease, isfloat |-> TRUE, prob |-> prob]

\* A line float() rejects ("Flu|high", "Flu|0.5|x")
NotAFloatLine(disease) ==
  [pipe |-> TRUE, disease |-> disease, isfloat |-> FALSE, prob |-> 0]

\* A line without '|'
TextLine == [pipe |-> FALSE, disease |-> "", isfloat |-> FALSE, prob |-> 0]

\* message_obj = {"role": "assistant", "content": "Error occurred during API call"}
ErrorResponse == [reasoning |-> FALSE, lines |-> <<TextLine>>]

\* "if disease and 0 <= prob <= 1" behind "'|' in line" and float()
Accepts(line) ==
  /\ line.pipe
  /\ line.isfloat
  /\ line.disease # ""
  /\ 0 <= line.prob
  /\ line.prob <= ProbScale

RECURSIVE ParseLines(_, _)
\* The parsing loop: probabilities[disease] = prob for every accepted line
ParseLines(items, lines) ==
  IF Len(lines) = 0 THEN items
  ELSE ParseLines(IF Accepts(lines[1])
                  THEN Put(items, lines[1].disease, lines[1].prob)
                  ELSE items,
                  Tail(lines))

\* probabilities[last_disease] += (1.0 - current_sum)
AddResidual(p) ==
  With(p, LAMBDA q :
    LET n == Len(q.items)
    IN  IF n = 0 THEN q
        ELSE [q EXCEPT !.items[n] =
                <<q.items[n][1], q.items[n][2] + (q.den - SumW(q.items))>>])

\* probabilities = {k: v/total ...} without the residual: v/total is
\* (w/den) / (sum/den) = w/sum
DivideByTotal(p) == [items |-> p.items, den |-> SumW(p.items)]

\* No normalization: C15_DividesBySum tells it from the one of the code
NormalizeNot(p) == p

\* "if total > 0:" normalize, then give the residual to the last key
Normalize(p) ==
  With(p, LAMBDA q :
    IF SumW(q.items) > 0 THEN AddResidual(DivideByTotal(q)) ELSE q)

\* for disease in POTENTIAL_SKIN_DIAGNOSES:
\*     if disease not in existing_diseases and len(probabilities) < num_diseases:
\*         probabilities[disease] = 0.0001
\* The loop adds, in the order of the list, the labels that are not in
\* existing_diseases until the dict has num_diseases entries or the list ends.
PadLoop(items0, existing, fallback, num_diseases, w) ==
  With(items0, LAMBDA items :
  LET missing == SelectSeq(fallback, LAMBDA d : d \notin existing)
      room == num_diseases - Len(items)
      added == Prefix(missing, IF room > 0 THEN room ELSE 0)
  IN  items \o [i \in 1..Len(added) |-> <<added[i], w>>])

\* "if len(probabilities) < num_diseases:" pad at 0.0001 and normalize again.
\* 0.0001 is den / (den * PadDen).
PadToCount(p, num_diseases) ==
  With(p, LAMBDA q :
    IF Len(q.items) < num_diseases
    THEN LET scaled == [i \in 1..Len(q.items) |->
                          <<q.items[i][1], q.items[i][2] * PadDen>>]
             padded == [items |-> PadLoop(scaled, KeySet(q.items),
                                          POTENTIAL_SKIN_DIAGNOSES,
                                          num_diseases, q.den),
                        den |-> q.den * PadDen]
         IN  Normalize(padded)
    ELSE q)

\* A cut that keeps the labels inserted first, whatever their probabilities:
\* C14_KeepsTheMostProbable tells it from the cut of the code
TruncateInOrder(p, num_diseases) ==
  IF Len(p.items) > num_diseases
  THEN [items |-> SubSeq(p.items, 1, num_diseases), den |-> p.den]
  ELSE p

\* "if len(probabilities) > num_diseases:" keep the top ones, normalize
TruncateToCount(p, num_diseases) ==
  With(p, LAMBDA q :
    IF Len(q.items) > num_diseases
    THEN Normalize([items |-> Prefix(SortedDesc(q.items), num_diseases),
                    den |-> q.den])
    ELSE q)

\* The probabilities update_probabilities computes from a response
ComputeProbabilities(resp, num_diseases) ==
  LET parsed == [items |-> ParseLines(<< >>, resp.lines), den |-> ProbScale]
  IN  Reduce(TruncateToCount(PadToCount(Normalize(parsed), num_diseases),
                             num_diseases))

RECURSIVE AppendNew(_, _)
\* for disease in probabilities.keys():
\*     if disease not in self.base_diseases: self.base_diseases.append(disease)
AppendNew(list, keys) ==
  IF Len(keys) = 0 THEN list
  ELSE AppendNew(IF \E i \in 1..Len(list) : list[i] = keys[1]
                 THEN list ELSE Append(list, keys[1]),
                 Tail(keys))

\* self.base_diseases after the update; None is [is_none |-> TRUE]
UpdateBaseDiseases(base, resp) ==
  LET keys == Keys(ParseLines(<< >>, resp.lines))
  IN  IF base.is_none
      THEN [is_none |-> FALSE, list |-> keys]
      ELSE [is_none |-> FALSE, list |-> AppendNew(base.list, keys)]

\* DiagnoserAgent(): patient_info = "", previous_probabilities = {},
\* base_diseases = None.  patient_info is the sequence of the texts added.
NewDiagnoser ==
  [patient_info |-> << >>,
   previous_probabilities |-> EmptyDict,
   base_diseases |-> [is_none |-> TRUE, list |-> << >>]]

\* An update that keeps the new information only: C26_OneUpdatePerQuestion
\* tells it from the accumulation of the code
UpdateForgetsContext(self, resp, additional_info, get_reasoning, num_diseases) ==
  With(ComputeProbabilities(resp, num_diseases), LAMBDA probabilities :
    [self |-> [patient_info |-> <<additional_info>>,
               previous_probabilities |-> probabilities,
               base_diseases |-> UpdateBaseDiseases(self.base_diseases, resp)],
     probabilities |-> probabilities,
     pair |-> get_reasoning /\ resp.reasoning])

\* DiagnoserAgent.update_probabilities on the Oracle's response resp:
\* [self |-> the agent afterwards, probabilities |-> the dict returned,
\*  pair |-> whether (probabilities, reasoning) is returned rather than the
\*  bare dict ("if get_reasoning and reasoning")]
UpdateProbabilities(self, resp, additional_info, get_reasoning, num_diseases) ==
  With(ComputeProbabilities(resp, num_diseases), LAMBDA probabilities :
    [self |-> [patient_info |-> Append(self.patient_info, additional_info),
               previous_probabilities |-> probabilities,
               base_diseases |-> UpdateBaseDiseases(self.base_diseases, resp)],
     probabilities |-> probabilities,
     pair |-> get_reasoning /\ resp.reasoning])

\* GPTDoctorAgent(): the fields of DiagnoserAgent and conversation_history
NewDoctor ==
  [patient_info |-> << >>,
   previous_probabilities |-> EmptyDict,
   base_diseases |-> [is_none |-> TRUE, list |-> << >>],
   conversation_history |-> << >>]

\* GPTDoctorAgent.update_probabilities: 'if additional_info.startswith(
\* "Question:")' the text joins conversation_history (lines 22-24); lines
\* 122-217 are, statement for statement, those of
\* DiagnoserAgent.update_probabilities.  additional_info is the sequence of
\* the parts of the text.
GPTDoctorUpdateProbabilities(self, resp, additional_info, get_reasoning, num_diseases) ==
  With(UpdateProbabilities(self, resp, additional_info, get_reasoning,
                           num_diseases),
       LAMBDA ret :
         [self |-> [patient_info |-> ret.self.patient_info,
                    previous_probabilities |-> ret.self.previous_probabilities,
                    base_diseases |-> ret.self.base_diseases,
                    conversation_history |->
                      IF additional_info[1] = "Question:"
                      THEN Append(self.conversation_history, additional_info)
                      ELSE self.conversation_history],
          probabilities |-> ret.probabilities,
          pair |-> ret.pair])

(***************************************************************************)
(* Entropy, in thousandths of a bit.                                       *)
(***************************************************************************)
RECURSIVE FloorLog2(_)
FloorLog2(n) == IF n < 2 THEN 0 ELSE 1 + FloorLog2(n \div 2)

RECURSIVE Pow2(_)
Pow2(k) == IF k = 0 THEN 1 ELSE 2 * Pow2(k - 1)

RECURSIVE FracBits(_, _)
\* The first `bits` binary digits of log2(x / 4096) for 4096 <= x < 8192,
\* by repeated squaring
FracBits(x, bits) ==
  IF bits = 0 THEN 0
  ELSE With((x * x) \div 4096, LAMBDA sq :
         IF sq >= 8192
         THEN Pow2(bits - 1) + FracBits(sq \div 2, bits - 1)
         ELSE FracBits(sq, bits - 1))

\* np.log2(n) for an integer n >= 1, in thousandths
Log2Milli(n) ==
  With(FloorLog2(n), LAMBDA k :
    1000 * k + (1000 * FracBits((n * 4096) \div Pow2(k), 10)) \div 1024)

RECURSIVE PLogPSum(_, _)
\* sum of w * log2(den / w) over the items with w > 0
PLogPSum(items, den) ==
  IF Len(items) = 0 THEN 0
  ELSE (IF items[1][2] > 0
        THEN items[1][2] * (Log2Milli(den) - Log2Milli(items[1][2]))
        ELSE 0)
       + PLogPSum(Tail(items), den)

\* calculate_entropy: -sum(p * np.log2(p) for p in values if p > 0)
calculate_entropy(p) ==
  With(p, LAMBDA q : PLogPSum(q.items, q.den) \div q.den)

(***************************************************************************)
(* What the Oracle may answer.                                             *)
(***************************************************************************)
\* Labels the Oracle names in its diagnosis lines
OracleLabels == <<"Flu", "Warts">>

RECURSIVE LinesFrom(_, _)
\* The lines that list each label of OracleLabels at most once, in that
\* order: choice[i] is the probability of label i in units of 1/ProbScale, or
\* -1 when the label has no line
LinesFrom(choice, i) ==
  IF i > Len(OracleLabels) THEN << >>
  ELSE (IF choice[i] < 0 THEN << >> ELSE <<Line(OracleLabels[i], choice[i])>>)
       \o LinesFrom(choice, i + 1)

SomeLines(choice) == LinesFrom(choice, 1)

LineChoices == [1..Len(OracleLabels) -> -1..ProbScale]

\* The responses to a belief-update prompt: any of these lines after a
\* reasoning part, every label at 1.0 without a reasoning part, or the
\* sentinel
UpdateResponses ==
  {[reasoning |-> TRUE, lines |-> SomeLines(c)] : c \in LineChoices}
  \cup {[reasoning |-> FALSE,
         lines |-> SomeLines([i \in 1..Len(OracleLabels) |-> ProbScale])],
        ErrorResponse}

\* Labels and responses of an update made on its own: each label has no line
\* (-1), or a line with a probability of 0 .. ProbScale + 1 units, the last of
\* which is above 1.0
DirectLabels == <<"Flu", "Warts", "Cold">>

RECURSIVE DirectLinesFrom(_, _)
DirectLinesFrom(choice, i) ==
  IF i > Len(DirectLabels) THEN << >>
  ELSE (IF choice[i] < 0 THEN << >> ELSE <<Line(DirectLabels[i], choice[i])>>)
       \o DirectLinesFrom(choice, i + 1)

DirectResponses ==
  {[reasoning |-> r, lines |-> DirectLinesFrom(c, 1)] :
     r \in BOOLEAN, c \in [1..Len(DirectLabels) -> -1..(ProbScale + 1)]}

\* The responses to the hypothetical updates of a question's evaluation: the
\* last label of OracleLabels is certain, or the sentinel
HypotheticalResponses ==
  {[reasoning |-> FALSE,
    lines |-> <<Line(OracleLabels[Len(OracleLabels)], ProbScale)>>],
   ErrorResponse}

\* Texts of the questions the Oracle writes for the initial pool (the third
\* repeats the first: the categories are asked independently), and for the
\* pool of a narrowing
InitialQuestions == <<"q1", "q2", "q1", "q3">>

FocusedQuestions == <<"f1", "f2", "f3">>

\* The sentinel text, which passes for a question and for an answer
ErrorText == "Error occurred during API call"

\* Texts of the simulated patient's answers
Answers == {"yes"}

SeqsUpTo(S, n) == UNION {[1..k -> S] : k \in 0..n}

(***************************************************************************)
(* ProbabilityAgent.                                                       *)
(***************************************************************************)
\* A line of a question-generation response that the parser skips: it starts
\* with 'Example', 'Format', '[', '-' or '*'
SkippedLine == "[Specific question about symptoms]"

\* _generate_category_questions on the lines of the Oracle's response: the
\* non-empty lines that are not skipped, cut to questions_per_disease
GenerateCategoryQuestions(lines) ==
  Prefix(SelectSeq(lines, LAMBDA q : q # "" /\ q # SkippedLine),
         QuestionsPerDisease)

\* The lines of a question-generation response: a line the parser skips,
\* then up to questions_per_disease + 1 questions
GenerationResponses ==
  {Prefix(<<SkippedLine>> \o FocusedQuestions, k) :
     k \in 0..(QuestionsPerDisease + 2)}

\* A line of a scenario response: pipes is the number of '|' in it (2 stands
\* for two or more), scenario the stripped text before the '|', isfloat
\* whether float() accepts the text after it, prob that float in units of
\* 1/ProbScale
ScenarioLine(scenario, prob) ==
  [pipes |-> 1, scenario |-> scenario, isfloat |-> TRUE, prob |-> prob]

RECURSIVE ScenarioLoop(_, _)
\* The parsing loop of calculate_scenario_probabilities:
\* [raised |-> a ValueError left the loop, scenarios |-> the dict so far]
ScenarioLoop(scenarios, lines) ==
  IF Len(lines) = 0 THEN [raised |-> FALSE, scenarios |-> scenarios]
  ELSE LET line == lines[1]
       IN  IF line.pipes = 0 THEN ScenarioLoop(scenarios, Tail(lines))
           ELSE IF line.pipes > 1
                \* scenario, prob = line.split('|')
                THEN [raised |-> TRUE, scenarios |-> scenarios]
           ELSE IF Has(scenarios, line.scenario)
                THEN ScenarioLoop(scenarios, Tail(lines))
           ELSE IF ~line.isfloat
                \* float(prob.strip())
                THEN [raised |-> TRUE, scenarios |-> scenarios]
           ELSE ScenarioLoop(Append(scenarios, <<line.scenario, line.prob>>),
                             Tail(lines))

calculate_scenario_probabilities(lines) == ScenarioLoop(<< >>, lines)

\* Largest number of lines of a scenario response
MaxScenarioLines == 1

ScenarioLines ==
  {ScenarioLine(t, 1) : t \in {"yes", "no"}}
  \cup {[pipes |-> 2, scenario |-> "yes", isfloat |-> FALSE, prob |-> 0],
        [pipes |-> 1, scenario |-> "no", isfloat |-> FALSE, prob |-> 0],
        [pipes |-> 0, scenario |-> "", isfloat |-> FALSE, prob |-> 0]}

ScenarioResponses == SeqsUpTo(ScenarioLines, MaxScenarioLines)

\* Largest number of lines of the response of a sampling made on its own
MaxDirectScenarioLines == 3

\* Lines of such a response: well-formed ones that repeat texts with other
\* probabilities, one with two pipes, one whose probability is not a float,
\* one without a pipe
DirectScenarioLines ==
  {ScenarioLine(t, w) : t \in {"yes", "no"}, w \in 1..2}
  \cup {[pipes |-> 2, scenario |-> "maybe", isfloat |-> FALSE, prob |-> 0],
        [pipes |-> 1, scenario |-> "no", isfloat |-> FALSE, prob |-> 0],
        [pipes |-> 0, scenario |-> "", isfloat |-> FALSE, prob |-> 0]}

DirectScenarioResponses == SeqsUpTo(DirectScenarioLines, MaxDirectScenarioLines)

\* No sampling has returned
NotSampled == [raised |-> FALSE, scenarios |-> << >>]

(***************************************************************************)
(* run_information_gain_network.                                           *)
(***************************************************************************)
VARIABLES
  update_response,         \* the Oracle's response to the update that
                           \* DirectUpdate makes; the interview draws its
                           \* responses as it goes and leaves this one alone
  scenario_response,       \* the lines of the Oracle's response to the
                           \* sampling that DirectSample makes
  scenario_probs,          \* what that sampling returned
  case_tasks,              \* compare_approaches: one process_case task per case
  files,                   \* benchmark_results/ and the clock that names its files
  ign_results,             \* compare_approaches: the results collected so far
  gpt_results,
  doctor,                  \* GPTDoctorAgent() of run_gpt_doctor_benchmark
  oracle_up,               \* FALSE: every completion call fails
  max_diseases,            \* the arguments of the run
  max_questions,
  turns_before_narrowing,
  pc,                      \* where the run stands
  diagnoser,               \* DiagnoserAgent()
  question_set,            \* probability_agent.question_set
  results,                 \* the results dict; its trace records leave out
                           \* the reasoning and probabilities fields
  current_probs,
  questions_asked,
  asked_questions,
  performed_first_narrowing,
  narrow_count,
  focused_diseases,
  question_info_gains,     \* the results of this turn's evaluations
  futures                  \* this turn's evaluations, one per question

vars ==
  << update_response, scenario_response, scenario_probs, case_tasks, files,
     ign_results, gpt_results, doctor, oracle_up, max_diseases, max_questions,
     turns_before_narrowing, pc,
     diagnoser, question_set, results, current_probs, questions_asked,
     asked_questions, performed_first_narrowing, narrow_count,
     focused_diseases, question_info_gains, futures >>

\* What the interview never changes: its arguments, and the state of the
\* calls that are made on their own
args ==
  << update_response, scenario_response, scenario_probs, case_tasks, files,
     ign_results, gpt_results, doctor, oracle_up,
     max_diseases, max_questions, turns_before_narrowing >>

\* A file that does not exist
Absent == [state |-> "absent", cases |-> << >>]

\* The variables of compare_approaches and of the GPT doctor when they do
\* not run
NoBenchmark ==
  /\ case_tasks = << >>
  /\ files = [dir |-> FALSE, timestamp |-> 0, now |-> 1,
              summary |-> << >>]
  /\ ign_results = << >>
  /\ gpt_results = << >>
  /\ doctor = NewDoctor

\* client.chat.completions.create: it raises, or it returns a response
Failure == [fails |-> TRUE]

Success(content) == [fails |-> FALSE, content |-> content]

\* A call without the try: C19_FailureBecomesSentinel tells it from the call
\* of the code
call_completion_api_Unguarded(service, sentinel) ==
  [raised |-> service.fails,
   content |-> IF service.fails THEN sentinel ELSE service.content]

\* call_completion_api, lines 26-37: "except Exception" returns a
\* FallbackResponse whose content is the sentinel text, here as its caller
\* reads it.  [raised |-> whether the call raises, content |-> what
\* response.choices[0].message.content is when it returns]
call_completion_api(service, sentinel) ==
  [raised |-> FALSE,
   content |-> IF service.fails THEN sentinel ELSE service.content]

\* The calls whose service returns one of `responses` and, if may_fail, the
\* call whose service raises
OracleCalls(responses, sentinel, may_fail) ==
  {call_completion_api(Success(r), sentinel) : r \in responses}
  \cup {call_completion_api(Failure, sentinel) :
          x \in IF may_fail THEN {1} ELSE {}}

\* The calls of one Oracle request: a service that is up returns one of
\* `responses` or raises, a service that is down raises
Answered(responses, failure) ==
  OracleCalls(IF oracle_up THEN responses ELSE {}, failure, TRUE)

\* _generate_question_set: the questions of the categories, in the order
\* their futures complete
InitialPools(up) ==
  IF up THEN {Prefix(InitialQuestions, k) : k \in 0..MaxPool}
  ELSE {[i \in 1..MaxPool |-> ErrorText]}

\* {d: current_probs.get(d, 0.0) for d in focused_diseases}, then
\* "if total > 0:" p/total
FocusOn(p, focused) ==
  With([items |-> [i \in 1..Len(focused) |->
                     <<focused[i], Get(p.items, focused[i], 0)>>],
        den |-> p.den],
       LAMBDA focused_probs :
         Reduce(IF SumW(focused_probs.items) > 0
                THEN DivideByTotal(focused_probs)
                ELSE focused_probs))

\* The entry inserted last, whatever its probability:
\* C11_SingleDiagnosisEndsTheRun tells it from the max of the code
TopItemLast(p) == p.items[Len(p.items)]

\* max(current_probs.items(), key=lambda x: x[1]): the first of the largest
TopItem(p) == SortedDesc(p.items)[1]

\* top_prob >= confidence_threshold
AtLeastThreshold(w, den) == w * ThresholdDen >= ThresholdNum * den

\* The state when run_information_gain_network has built its agents and its
\* results dict (lines 38-58)
Init ==
  /\ update_response = ErrorResponse
  /\ scenario_response = << >>
  /\ scenario_probs = NotSampled
  /\ NoBenchmark
  /\ oracle_up \in BOOLEAN
  /\ max_diseases \in 1..MaxDiseases
  /\ max_questions \in 1..MaxQuestions
  /\ turns_before_narrowing \in 0..MaxTurnsBeforeNarrowing
  /\ pc = "start"
  /\ diagnoser = NewDiagnoser
  /\ question_set \in InitialPools(oracle_up)
  /\ results = [questions_asked |-> 0,
                diagnoses |-> << >>,
                confident_diagnosis |-> FALSE,
                correct_diagnosis |-> FALSE,
                final_diagnosis |-> "None",
                final_probability |-> <<0, 1>>,
                ground_truth |-> GroundTruth,
                narrowing_events |-> << >>]
  /\ current_probs = EmptyDict
  /\ questions_asked = 0
  /\ asked_questions = {}
  /\ performed_first_narrowing = FALSE
  /\ narrow_count = 0
  /\ focused_diseases = << >>
  /\ question_info_gains = << >>
  /\ futures = << >>

\* "current_probs, reasoning = diagnoser.update_probabilities(...)" on a bare
\* dict raises (ValueError, or with two keys an AttributeError at the first
\* use of current_probs): the run ends in an exception
Raise == pc' = "raised"

\* A trace that holds the last record only: C23_TraceIsAppendOnly tells it
\* from the append of the code
TrackLatest(diagnoses, record) == <<record>>

\* results["diagnoses"].append({...}), lines 75-79 and 327-334.  A record of
\* the model holds the turn, the question, the answer and narrowed_diseases;
\* its "probabilities" is a dict that nothing changes after the append (every
\* update and every narrowing builds a new dict), so it is left out.
Track(diagnoses, record) == Append(diagnoses, record)

\* Lines 60-90: the initial probabilities and turn 0 of the trace
InitialUpdate ==
  /\ pc = "start"
  /\ \E call \in Answered(UpdateResponses, ErrorResponse) :
       IF call.raised
       THEN /\ Raise
            /\ UNCHANGED <<diagnoser, current_probs, results, focused_diseases>>
       ELSE
       \E ret \in {UpdateProbabilities(diagnoser, call.content, "vignette",
                                       TRUE, max_diseases)} :
           /\ diagnoser' = ret.self
           /\ IF ret.pair
              THEN /\ current_probs' = ret.probabilities
                   /\ results' = [results EXCEPT !.diagnoses =
                        Track(@, [turn |-> 0])]
                   /\ focused_diseases' = Keys(ret.probabilities.items)
                   /\ pc' = "loop"
              ELSE /\ Raise
                   /\ UNCHANGED <<current_probs, results, focused_diseases>>
  /\ UNCHANGED <<args, question_set, questions_asked, asked_questions,
                 performed_first_narrowing, narrow_count,
                 question_info_gains, futures>>

\* A loop test without the limit on the questions: the single narrowing of
\* C6_OneNarrowingInThreeTurns depends on the limit
LoopConditionNoLimit == Len(current_probs.items) > MinDiseasesToKeep

\* A loop test that lets one more question through: C18_Terminates tells it
\* from the test of the code
LoopConditionOneMore ==
  /\ Len(current_probs.items) > MinDiseasesToKeep
  /\ questions_asked <= max_questions

\* "while len(current_probs) > min_diseases_to_keep and
\*        questions_asked < max_questions"
LoopCondition ==
  /\ Len(current_probs.items) > MinDiseasesToKeep
  /\ questions_asked < max_questions

\* A trigger that fires at every loop entry from turns_before_narrowing on:
\* C10_NarrowingSchedule tells it from the trigger of the code
ShouldNarrowEveryTurn == questions_asked >= turns_before_narrowing

\* should_narrow, lines 94-102
ShouldNarrow ==
  \/ ~performed_first_narrowing /\ questions_asked >= turns_before_narrowing
  \/ /\ performed_first_narrowing
     /\ (questions_asked - turns_before_narrowing) % 2 = 0
     /\ Len(current_probs.items) > MinDiseasesToKeep

\* A narrowing that keeps every diagnosis: C3_NarrowingKeepsFewerNotNone
\* tells it from the halving of the code
NumToKeepAll(n) == n

\* A narrowing that evicts one diagnosis at a time:
\* C29_NarrowingEventsFormAChain tells it from the halving of the code
NumToKeepAllButOne(n) ==
  IF n - 1 > MinDiseasesToKeep THEN n - 1 ELSE MinDiseasesToKeep

\* num_to_keep = max(min_diseases_to_keep, len(current_probs) // 2)
NumToKeep(n) ==
  IF n \div 2 > MinDiseasesToKeep THEN n \div 2 ELSE MinDiseasesToKeep

\* The whole pool, asked questions included: C5_NoQuestionAskedTwice tells it
\* from the filter of the code
AvailableAll(pool, asked) == pool

\* [q for q in probability_agent.question_set if q not in asked_questions]
AvailableQuestions(pool, asked) == SelectSeq(pool, LAMBDA q : q \notin asked)

\* One future per question to evaluate: scenarios holds the probabilities of
\* the scenarios still to go through, scenario_count is len(scenario_probs)
Submitted(questions) ==
  [i \in 1..Len(questions) |->
     [question |-> questions[i], state |-> "pending",
      scenarios |-> << >>, scenario_count |-> 0, expected |-> 0]]

\* Lines 237-250, after the narrowing if there was one: the available
\* questions and the evaluations to run
PrepareEvaluation(pool, asked) ==
  LET available == AvailableQuestions(pool, asked)
  IN  /\ IF Len(available) = 0
         THEN /\ pc' = "final"
              /\ UNCHANGED futures
         ELSE /\ pc' = "evaluate"
              /\ futures' = Submitted(available)
      /\ question_info_gains' = << >>

\* A pool that keeps its questions and adds the new ones:
\* C22_NarrowingReplacesThePool tells it from the assignment of the code
ExtendPool(pool, response) == pool \o response

\* "probability_agent.question_set = response" (line 218): the pool after a
\* narrowing is the list _generate_category_questions returned
ReplacePool(pool, response) == response

\* One entry of the while loop, lines 92-250: the loop test, the narrowing
\* when it is due, and the preparation of this turn's evaluations
LoopEntry ==
  /\ pc = "loop"
  /\ IF ~LoopCondition
     THEN /\ pc' = "final"
          /\ UNCHANGED <<question_set, results, current_probs,
                         asked_questions, performed_first_narrowing,
                         narrow_count, focused_diseases,
                         question_info_gains, futures>>
     ELSE IF ~ShouldNarrow
     THEN /\ PrepareEvaluation(question_set, asked_questions)
          /\ UNCHANGED <<question_set, results, current_probs,
                         asked_questions, performed_first_narrowing,
                         narrow_count, focused_diseases>>
     ELSE LET sorted_diseases == SortedDesc(current_probs.items)
              num_to_keep == NumToKeep(Len(current_probs.items))
              focused == Keys(Prefix(sorted_diseases, num_to_keep))
              event == [turn |-> questions_asked,
                        diseases_before |-> Len(current_probs.items),
                        diseases_after |-> num_to_keep,
                        focused_diseases |-> focused]
          IN  /\ performed_first_narrowing' = TRUE
              /\ narrow_count' = narrow_count + 1
              /\ focused_diseases' = focused
              /\ IF num_to_keep = MinDiseasesToKeep /\ Len(focused) = 1
                 THEN \* "Single diagnosis reached. Stopping questions."
                      /\ results' = [results EXCEPT
                           !.narrowing_events = Append(@, event),
                           !.confident_diagnosis = TRUE]
                      /\ pc' = "final"
                      /\ UNCHANGED <<question_set, current_probs,
                                     asked_questions, question_info_gains,
                                     futures>>
                 ELSE /\ results' = [results EXCEPT
                           !.narrowing_events = Append(@, event),
                           !.confident_diagnosis =
                              @ \/ num_to_keep = MinDiseasesToKeep]
                      /\ \E call \in Answered(GenerationResponses,
                                              <<ErrorText>>) :
                           IF call.raised
                           THEN /\ Raise
                                /\ UNCHANGED <<question_set, asked_questions,
                                               current_probs,
                                               question_info_gains, futures>>
                           ELSE
                           \E lines \in {call.content} :
                           /\ question_set' =
                                ReplacePool(question_set,
                                            GenerateCategoryQuestions(lines))
                           /\ asked_questions' = {}
                           /\ current_probs' = FocusOn(current_probs, focused)
                           /\ PrepareEvaluation(
                                ReplacePool(question_set,
                                            GenerateCategoryQuestions(lines)),
                                {})
  /\ UNCHANGED <<args, diagnoser, questions_asked>>

\* "if len(questions_to_evaluate) <= 2": evaluated one after the other by the
\* interview itself, without a try; otherwise by a pool of max_workers threads
Sequential == Len(futures) <= SequentialLimit

Running == {i \in 1..Len(futures) : futures[i].state = "running"}

\* The evaluation that may start next: the first one not started, when a
\* thread is free (the interview's own thread on the sequential path)
MayStart(i) ==
  /\ futures[i].state = "pending"
  /\ \A j \in 1..(i - 1) : futures[j].state # "pending"
  /\ Cardinality(Running) < (IF Sequential THEN 1 ELSE MaxWorkers)

AllDone(fs) == \A i \in 1..Len(fs) : fs[i].state = "done"

\* info_gain = current_entropy - expected_entropy, in units of
\* 1/(1000 * ProbScale) bit
InfoGain(expected) ==
  ProbScale * calculate_entropy(current_probs) - expected

\* The evaluation i is over with this result: it joins question_info_gains
\* in completion order
Complete(i, fs, expected) ==
  /\ futures' = [fs EXCEPT ![i].state = "done"]
  /\ question_info_gains' =
       Append(question_info_gains, <<fs[i].question, InfoGain(expected)>>)
  /\ pc' = IF AllDone([fs EXCEPT ![i].state = "done"])
           THEN "select" ELSE "evaluate"

\* evaluate_question_info_gain, lines 9-12: the scenarios of question i.  A
\* ValueError of the parser leaves the interview on the sequential path and
\* is caught at future.result() on the parallel path.
EvaluateStart(i) ==
  /\ pc = "evaluate"
  /\ MayStart(i)
  /\ \E call \in Answered(ScenarioResponses, << >>) :
       LET sampled == IF call.raised
                      THEN [raised |-> TRUE, scenarios |-> << >>]
                      ELSE calculate_scenario_probabilities(call.content)
       IN  IF sampled.raised
           THEN IF Sequential
                THEN /\ Raise
                     /\ UNCHANGED <<futures, question_info_gains>>
                ELSE /\ futures' = [futures EXCEPT ![i].state = "done"]
                     /\ pc' = IF AllDone(futures') THEN "select" ELSE "evaluate"
                     /\ UNCHANGED question_info_gains
           ELSE IF Len(sampled.scenarios) = 0
           THEN Complete(i, futures, 0)
           ELSE /\ futures' = [futures EXCEPT
                      ![i].state = "running",
                      ![i].scenario_count = Len(sampled.scenarios),
                      ![i].scenarios = [k \in 1..Len(sampled.scenarios) |->
                                          sampled.scenarios[k][2]]]
                /\ UNCHANGED <<pc, question_info_gains>>
  /\ UNCHANGED <<args, diagnoser, question_set, results, current_probs,
                 questions_asked, asked_questions, performed_first_narrowing,
                 narrow_count, focused_diseases>>

\* evaluate_question_info_gain, lines 16-42: one pass of the loop over the
\* scenarios of question i.  temp_diagnoser.base_diseases is the list of the
\* interview's diagnoser, not a copy: what the update appends, it appends to
\* diagnoser.base_diseases.  The pass is one step: two threads that test
\* "disease not in self.base_diseases" before either appends could append a
\* label twice, which no property below depends on.
EvaluateScenario(i) ==
  /\ pc = "evaluate"
  /\ futures[i].state = "running"
  /\ \E call \in Answered(HypotheticalResponses, ErrorResponse) :
     IF call.raised
     THEN /\ IF Sequential
             THEN /\ Raise
                  /\ UNCHANGED futures
             ELSE /\ futures' = [futures EXCEPT ![i].state = "done"]
                  /\ pc' = IF AllDone(futures') THEN "select" ELSE "evaluate"
          /\ UNCHANGED <<diagnoser, question_info_gains>>
     ELSE
     \E resp \in {call.content} :
     \E temp_diagnoser \in
          {[patient_info |-> diagnoser.patient_info,
            previous_probabilities |-> current_probs,
            base_diseases |-> diagnoser.base_diseases]} :
     \E ret \in {UpdateProbabilities(temp_diagnoser, resp, "scenario",
                                     FALSE, max_diseases)} :
     \E scenario_entropy \in
          {IF performed_first_narrowing /\ Len(focused_diseases) > 0
           THEN calculate_entropy(FocusOn(ret.probabilities, focused_diseases))
           ELSE calculate_entropy(ret.probabilities)} :
       LET expected == futures[i].expected
                       + futures[i].scenarios[1] * scenario_entropy
           rest == Tail(futures[i].scenarios)
           fs == [futures EXCEPT ![i].scenarios = rest,
                                 ![i].expected = expected]
       IN  /\ diagnoser' =
                IF diagnoser.base_diseases.is_none
                THEN diagnoser   \* the new list is bound to temp_diagnoser
                ELSE [diagnoser EXCEPT
                        !.base_diseases = ret.self.base_diseases]
           /\ IF Len(rest) = 0
              THEN Complete(i, fs, expected)
              ELSE /\ futures' = fs
                   /\ UNCHANGED <<pc, question_info_gains>>
  /\ UNCHANGED <<args, question_set, results, current_probs, questions_asked,
                 asked_questions, performed_first_narrowing, narrow_count,
                 focused_diseases>>

\* The result collected first, whatever its gain: C16_AsksTheFirstLargestGain
\* tells it from the max of the code
BestQuestionFirst(gains) == gains[1]

\* max(question_info_gains, key=lambda x: x[1]): the first of the largest
BestQuestion(gains) ==
  gains[CHOOSE i \in 1..Len(gains) :
          /\ \A j \in 1..Len(gains) : gains[j][2] <= gains[i][2]
          /\ \A j \in 1..(i - 1) : gains[j][2] < gains[i][2]]

\* Lines 286-335: the best question is asked, the patient answers, the
\* diagnoser is updated with the answer, the turn is recorded
AskBestQuestion ==
  /\ pc = "select"
  /\ IF Len(question_info_gains) = 0
     THEN /\ pc' = "final"
          /\ UNCHANGED <<diagnoser, results, current_probs, questions_asked,
                         asked_questions>>
     ELSE LET best_question == BestQuestion(question_info_gains)[1]
          IN  /\ questions_asked' = questions_asked + 1
              /\ asked_questions' = asked_questions \cup {best_question}
              /\ \E patient \in OracleCalls(IF oracle_up THEN Answers ELSE {},
                                             ErrorText, ~oracle_up),
                    call \in Answered(UpdateResponses, ErrorResponse) :
                 IF patient.raised \/ call.raised
                 THEN /\ Raise
                      /\ UNCHANGED <<diagnoser, current_probs, results>>
                 ELSE
                 \E patient_response \in {patient.content},
                    resp \in {call.content} :
                 \E ret \in {UpdateProbabilities(
                                diagnoser, resp,
                                <<best_question, patient_response>>, TRUE,
                                Len(focused_diseases))} :
                 \E focused_probs \in
                      {FocusOn(ret.probabilities, focused_diseases)} :
                       /\ diagnoser' = ret.self
                       /\ IF ret.pair
                          THEN /\ current_probs' = focused_probs
                               /\ results' = [results EXCEPT !.diagnoses =
                                    Track(@,
                                      [turn |-> questions_asked + 1,
                                       question |-> best_question,
                                       patient_response |-> patient_response,
                                       narrowed_diseases |->
                                         Len(focused_probs.items)])]
                               /\ pc' = "loop"
                          ELSE /\ Raise
                               /\ UNCHANGED <<current_probs, results>>
  /\ question_info_gains' = << >>
  /\ futures' = << >>
  /\ UNCHANGED <<args, question_set, performed_first_narrowing, narrow_count,
                 focused_diseases>>

\* Lines 337-364: the final diagnosis and the returned results
Finalize ==
  /\ pc = "final"
  /\ LET top == TopItem(current_probs)
         top_disease == top[1]
         top_prob == <<top[2], current_probs.den>>
     IN  results' =
           [results EXCEPT
              !.confident_diagnosis =
                 IF \/ Len(current_probs.items) = 1
                    \/ AtLeastThreshold(top[2], current_probs.den)
                 THEN TRUE ELSE @,
              !.questions_asked = questions_asked,
              !.final_diagnosis = top_disease,
              !.final_probability = top_prob,
              !.correct_diagnosis = MatchesGroundTruth(top_disease)]
           @@ [final_disease_count |-> Len(current_probs.items),
               narrowing_steps |-> narrow_count]
  /\ pc' = "done"
  /\ UNCHANGED <<args, diagnoser, question_set, current_probs,
                 questions_asked, asked_questions, performed_first_narrowing,
                 narrow_count, focused_diseases, question_info_gains,
                 futures>>

Evaluate ==
  \E i \in 1..Len(futures) : EvaluateStart(i) \/ EvaluateScenario(i)

Next ==
  \/ InitialUpdate
  \/ LoopEntry
  \/ Evaluate
  \/ AskBestQuestion
  \/ Finalize

Spec == Init /\ [][Next]_vars

\* The interviews with the largest question budget: one with a smaller
\* budget takes the same steps until its budget ends it
FairInit ==
  /\ Init
  /\ max_questions = MaxQuestions

\* The interview when every Oracle call returns and the threads of the pool
\* are scheduled: a step that can be taken is taken
FairSpec == FairInit /\ [][Next]_vars /\ WF_vars(Next)

(***************************************************************************)
(* DiagnoserAgent.update_probabilities called on its own, on a new agent.  *)
(***************************************************************************)
\* A new DiagnoserAgent, the response the Oracle will give, and num_diseases
\* (held in max_diseases)
InitUpdate ==
  /\ update_response \in DirectResponses
  /\ scenario_response = << >>
  /\ scenario_probs = NotSampled
  /\ NoBenchmark
  /\ oracle_up = TRUE
  /\ max_diseases \in 1..MaxNumDiseases
  /\ max_questions = 1
  /\ turns_before_narrowing = 0
  /\ pc = "update"
  /\ diagnoser = NewDiagnoser
  /\ question_set = << >>
  /\ results = [questions_asked |-> 0,
                diagnoses |-> << >>,
                confident_diagnosis |-> FALSE,
                correct_diagnosis |-> FALSE,
                final_diagnosis |-> "None",
                final_probability |-> <<0, 1>>,
                ground_truth |-> GroundTruth,
                narrowing_events |-> << >>]
  /\ current_probs = EmptyDict
  /\ questions_asked = 0
  /\ asked_questions = {}
  /\ performed_first_narrowing = FALSE
  /\ narrow_count = 0
  /\ focused_diseases = << >>
  /\ question_info_gains = << >>
  /\ futures = << >>

\* probabilities = agent.update_probabilities(info, num_diseases=n): the
\* returned dict is held in current_probs
DirectUpdate ==
  /\ pc = "update"
  /\ LET ret == UpdateProbabilities(diagnoser, update_response, "info", FALSE,
                                    max_diseases)
     IN  /\ diagnoser' = ret.self
         /\ current_probs' = ret.probabilities
  /\ pc' = "returned"
  /\ UNCHANGED <<args, question_set, results, questions_asked,
                 asked_questions, performed_first_narrowing, narrow_count,
                 focused_diseases, question_info_gains, futures>>

NextUpdate == DirectUpdate

UpdateSpec == InitUpdate /\ [][NextUpdate]_vars

(***************************************************************************)
(* ProbabilityAgent.calculate_scenario_probabilities called on its own.    *)
(***************************************************************************)
\* The variables of the interview when no interview runs
NoInterview ==
  /\ update_response = ErrorResponse
  /\ oracle_up = TRUE
  /\ max_diseases = 1
  /\ max_questions = 1
  /\ turns_before_narrowing = 0
  /\ diagnoser = NewDiagnoser
  /\ question_set = << >>
  /\ results = [questions_asked |-> 0,
                diagnoses |-> << >>,
                confident_diagnosis |-> FALSE,
                correct_diagnosis |-> FALSE,
                final_diagnosis |-> "None",
                final_probability |-> <<0, 1>>,
                ground_truth |-> GroundTruth,
                narrowing_events |-> << >>]
  /\ current_probs = EmptyDict
  /\ questions_asked = 0
  /\ asked_questions = {}
  /\ performed_first_narrowing = FALSE
  /\ narrow_count = 0
  /\ focused_diseases = << >>
  /\ question_info_gains = << >>
  /\ futures = << >>

\* The lines of the response the Oracle will give to the sampling
InitScenario ==
  /\ NoInterview
  /\ NoBenchmark
  /\ scenario_response \in DirectScenarioResponses
  /\ scenario_probs = NotSampled
  /\ pc = "sample"

\* scenario_probs = probability_agent.calculate_scenario_probabilities(...)
DirectSample ==
  /\ pc = "sample"
  /\ scenario_probs' = calculate_scenario_probabilities(scenario_response)
  /\ pc' = "sampled"
  /\ UNCHANGED <<update_response, scenario_response, case_tasks, files,
                 ign_results, gpt_results, doctor, oracle_up, max_diseases,
                 max_questions, turns_before_narrowing, diagnoser,
                 question_set, results, current_probs, questions_asked,
                 asked_questions, performed_first_narrowing, narrow_count,
                 focused_diseases, question_info_gains, futures>>

NextScenario == DirectSample

ScenarioSpec == InitScenario /\ [][NextScenario]_vars

(***************************************************************************)
(* compare_approaches with parallel_cases and more than one case.          *)
(***************************************************************************)
\* len(cases)
MaxCases == 2

\* Seconds the clock of time.strftime may show while the cases are saved
MaxClock == 2

\* ThreadPoolExecutor(max_workers=min(3, len(cases)))
MaxCaseWorkers == 3

\* The result process_case returns for cases[i - 1]: the results of the two
\* interviews are left out, each assumed to return
CaseResult(i) == [case |-> i]

\* A process_case task: pc is where it stands, need the outcome of its last
\* test, ts the timestamp in the name of its summary file, data the
\* summary_data it holds
NewTask == [pc |-> "pending", need |-> FALSE, ts |-> 0, data |-> << >>]

InitBench ==
  /\ NoInterview
  /\ scenario_response = << >>
  /\ scenario_probs = NotSampled
  /\ case_tasks = [i \in 1..MaxCases |-> NewTask]
  /\ files = [dir |-> FALSE, timestamp |-> 0, now |-> 1,
              summary |-> [t \in 1..MaxClock |-> Absent]]
  /\ ign_results = << >>
  /\ gpt_results = << >>
  /\ doctor = NewDoctor
  /\ pc = "collect"

\* What a step of compare_approaches leaves alone
BenchUnchanged ==
  UNCHANGED <<update_response, scenario_response, scenario_probs, doctor,
              oracle_up,
              max_diseases, max_questions, turns_before_narrowing, diagnoser,
              question_set, results, current_probs, questions_asked,
              asked_questions, performed_first_narrowing, narrow_count,
              focused_diseases, question_info_gains, futures>>

\* Task i goes to `to`, its locals as given
Goto(i, to, need, ts, data) ==
  case_tasks' = [case_tasks EXCEPT
                   ![i] = [pc |-> to, need |-> need, ts |-> ts, data |-> data]]

\* The tasks a thread of the pool is running
Working ==
  {i \in 1..Len(case_tasks) :
     case_tasks[i].pc \notin {"pending", "finished", "failed", "collected",
                             "reraised"}}

\* process_case, lines 54-79, run by a free thread of the pool on the first
\* task not started: the two interviews of the case
ProcessCase(i) ==
  /\ case_tasks[i].pc = "pending"
  /\ \A j \in 1..(i - 1) : case_tasks[j].pc # "pending"
  /\ Cardinality(Working) < IF MaxCaseWorkers < Len(case_tasks)
                            THEN MaxCaseWorkers ELSE Len(case_tasks)
  /\ Goto(i, "check_dir", FALSE, 0, << >>)
  /\ UNCHANGED <<files, ign_results, gpt_results, pc>>

\* "if not os.path.exists("benchmark_results"):"
CheckDir(i) ==
  /\ case_tasks[i].pc = "check_dir"
  /\ Goto(i, IF files.dir THEN "check_stamp" ELSE "make_dir",
          ~files.dir, 0, << >>)
  /\ UNCHANGED <<files, ign_results, gpt_results, pc>>

\* os.makedirs("benchmark_results"): FileExistsError when another task has
\* made the directory since the test
MakeDir(i) ==
  /\ case_tasks[i].pc = "make_dir"
  /\ IF files.dir
     THEN /\ Goto(i, "failed", FALSE, 0, << >>)
          /\ UNCHANGED files
     ELSE /\ Goto(i, "check_stamp", FALSE, 0, << >>)
          /\ files' = [files EXCEPT !.dir = TRUE]
  /\ UNCHANGED <<ign_results, gpt_results, pc>>

\* "if not hasattr(save_incremental_results, "timestamp"):"
CheckStamp(i) ==
  /\ case_tasks[i].pc = "check_stamp"
  /\ Goto(i, IF files.timestamp = 0 THEN "set_stamp" ELSE "name_summary",
          files.timestamp = 0, 0, << >>)
  /\ UNCHANGED <<files, ign_results, gpt_results, pc>>

\* save_incremental_results.timestamp = time.strftime("%Y%m%d-%H%M%S")
SetStamp(i) ==
  /\ case_tasks[i].pc = "set_stamp"
  /\ files' = [files EXCEPT !.timestamp = files.now]
  /\ Goto(i, "name_summary", FALSE, 0, << >>)
  /\ UNCHANGED <<ign_results, gpt_results, pc>>

\* Lines 96-163: the case data, the incremental file of the case, and the
\* name of the summary file, which holds the timestamp as it is now
NameSummary(i) ==
  /\ case_tasks[i].pc = "name_summary"
  /\ Goto(i, "check_summary", FALSE, files.timestamp, << >>)
  /\ UNCHANGED <<files, ign_results, gpt_results, pc>>

\* "if os.path.exists(summary_file):", and the new summary of the else branch
CheckSummary(i) ==
  /\ case_tasks[i].pc = "check_summary"
  /\ LET ts == case_tasks[i].ts
     IN  IF files.summary[ts].state # "absent"
         THEN Goto(i, "read_summary", TRUE, ts, << >>)
         ELSE Goto(i, "open_summary", FALSE, ts, <<i>>)
  /\ UNCHANGED <<files, ign_results, gpt_results, pc>>

\* The for/else of lines 171-176: the entry of the case is replaced, or the
\* case is appended
UpdateCases(entries, i) ==
  IF \E k \in 1..Len(entries) : entries[k] = i
  THEN entries ELSE Append(entries, i)

\* json.load(f) and the update of the cases list: JSONDecodeError when the
\* file is open for writing and still empty
ReadSummary(i) ==
  /\ case_tasks[i].pc = "read_summary"
  /\ LET ts == case_tasks[i].ts
     IN  IF files.summary[ts].state = "empty"
         THEN Goto(i, "failed", FALSE, 0, << >>)
         ELSE Goto(i, "open_summary", FALSE, ts,
                   UpdateCases(files.summary[ts].cases, i))
  /\ UNCHANGED <<files, ign_results, gpt_results, pc>>

\* open(summary_file, 'w') truncates the file
OpenSummary(i) ==
  /\ case_tasks[i].pc = "open_summary"
  /\ files' = [files EXCEPT !.summary[case_tasks[i].ts] =
                 [state |-> "empty", cases |-> << >>]]
  /\ Goto(i, "dump_summary", FALSE, case_tasks[i].ts, case_tasks[i].data)
  /\ UNCHANGED <<ign_results, gpt_results, pc>>

\* json.dump(summary_data, f, indent=2), and process_case returns
DumpSummary(i) ==
  /\ case_tasks[i].pc = "dump_summary"
  /\ files' = [files EXCEPT !.summary[case_tasks[i].ts] =
                 [state |-> "json", cases |-> case_tasks[i].data]]
  /\ Goto(i, "finished", FALSE, 0, << >>)
  /\ UNCHANGED <<ign_results, gpt_results, pc>>

\* A second goes by
Tick ==
  /\ pc = "collect"
  /\ files.now < MaxClock
  /\ \E i \in 1..Len(case_tasks) : case_tasks[i].pc # "pending"
  /\ files' = [files EXCEPT !.now = files.now + 1]
  /\ UNCHANGED <<case_tasks, ign_results, gpt_results, pc>>
  /\ BenchUnchanged

\* "for future in concurrent.futures.as_completed(futures):" lines 206-209:
\* the result of a task that is over is appended, or its exception leaves
\* compare_approaches
Collect(i) ==
  /\ pc = "collect"
  /\ \/ /\ case_tasks[i].pc = "finished"
        /\ ign_results' = Append(ign_results, CaseResult(i))
        /\ gpt_results' = Append(gpt_results, CaseResult(i))
        /\ Goto(i, "collected", FALSE, 0, << >>)
        /\ UNCHANGED pc
     \/ /\ case_tasks[i].pc = "failed"
        /\ Goto(i, "reraised", FALSE, 0, << >>)
        /\ pc' = "raised"
        /\ UNCHANGED <<ign_results, gpt_results>>
  /\ UNCHANGED files

\* Lines 217-271: every result is collected and the rankings are computed,
\* ign_results[i] and gpt_results[i] read for cases[i]
Rank ==
  /\ pc = "collect"
  /\ \A i \in 1..Len(case_tasks) : case_tasks[i].pc = "collected"
  /\ pc' = "ranked"
  /\ UNCHANGED <<case_tasks, files, ign_results, gpt_results>>
  /\ BenchUnchanged

\* A step of the task of case i
CaseStep(i) ==
  \/ ProcessCase(i)
  \/ CheckDir(i)
  \/ MakeDir(i)
  \/ CheckStamp(i)
  \/ SetStamp(i)
  \/ NameSummary(i)
  \/ CheckSummary(i)
  \/ ReadSummary(i)
  \/ OpenSummary(i)
  \/ DumpSummary(i)

SaveStep == \E i \in 1..Len(case_tasks) : CaseStep(i) /\ BenchUnchanged

CollectStep == \E i \in 1..Len(case_tasks) : Collect(i) /\ BenchUnchanged

NextBench ==
  \/ SaveStep
  \/ CollectStep
  \/ Tick
  \/ Rank

BenchSpec == InitBench /\ [][NextBench]_vars

(***************************************************************************)
(* run_gpt_doctor_benchmark.                                               *)
(***************************************************************************)
\* ground_truth_rank = None
NoRank == 0

\* "Can you tell me more about your symptoms?"
DefaultQuestion == "Can you tell me more about your symptoms?"

\* Texts the Oracle returns for the next question: with a QUESTION: line, or
\* without one
QuestionResponses == {"QUESTION: Does it itch?", "I would ask about itching."}

\* The text after "QUESTION:" of the last line that starts with it, "" when
\* there is none (lines 254-261)
QuestionLine(content) ==
  IF content = "QUESTION: Does it itch?" THEN "Does it itch?" ELSE ""

\* generate_next_question, lines 263-267: "if not question:" the default one
generate_next_question(content) ==
  IF QuestionLine(content) = "" THEN DefaultQuestion ELSE QuestionLine(content)

\* Lines 79-84 and 126-131: the place, from 1, of the first diagnosis that
\* contains the ground truth in the diagnoses sorted by falling probability
GroundTruthRank(p) ==
  With(SortedDesc(p.items), LAMBDA sorted_diagnoses :
    IF \E idx \in 1..Len(sorted_diagnoses) :
         MatchesGroundTruth(sorted_diagnoses[idx][1])
    THEN CHOOSE idx \in 1..Len(sorted_diagnoses) :
           /\ MatchesGroundTruth(sorted_diagnoses[idx][1])
           /\ \A j \in 1..(idx - 1) :
                ~MatchesGroundTruth(sorted_diagnoses[j][1])
    ELSE NoRank)

\* A doctor that is never confident: C30_DoctorStopsWhenConfident tells it
\* from the test of the code
NeverConfident(p) == FALSE

\* "top_disease, top_prob = max(current_probs.items(), key=lambda x: x[1])"
\* and "if top_prob >= confidence_threshold:"
TopIsConfident(p) == AtLeastThreshold(TopItem(p)[2], p.den)

\* The state when run_gpt_doctor_benchmark has built its agents and its
\* results dict (lines 31-58)
InitDoctor ==
  /\ update_response = ErrorResponse
  /\ scenario_response = << >>
  /\ scenario_probs = NotSampled
  /\ NoBenchmark
  /\ oracle_up \in BOOLEAN
  /\ max_diseases \in 1..MaxDiseases
  /\ max_questions \in 0..MaxQuestions
  /\ turns_before_narrowing = 0
  /\ pc = "start"
  /\ diagnoser = NewDiagnoser
  /\ question_set = << >>
  /\ results = [questions_asked |-> 0,
                diagnoses |-> << >>,
                confident_diagnosis |-> FALSE,
                correct_diagnosis |-> FALSE,
                final_diagnosis |-> "None",
                final_probability |-> <<0, 1>>,
                ground_truth |-> GroundTruth,
                interaction_history |-> << >>,
                ground_truth_rank |-> NoRank,
                ground_truth_rank_history |-> << >>,
                ground_truth_narrowed_out |-> FALSE,
                ground_truth_last_rank |-> NoRank]
  /\ current_probs = EmptyDict
  /\ questions_asked = 0
  /\ asked_questions = {}
  /\ performed_first_narrowing = FALSE
  /\ narrow_count = 0
  /\ focused_diseases = << >>
  /\ question_info_gains = << >>
  /\ futures = << >>

\* What run_gpt_doctor_benchmark leaves alone
DoctorUnchanged ==
  UNCHANGED <<update_response, scenario_response, scenario_probs, case_tasks,
              files, ign_results, gpt_results, oracle_up, max_diseases,
              max_questions, turns_before_narrowing, diagnoser, question_set,
              asked_questions, performed_first_narrowing, narrow_count,
              focused_diseases, question_info_gains, futures>>

\* Lines 60-88: the initial probabilities, turn 0 of the trace and the first
\* ground truth rank.  "current_probs, _ = doctor.update_probabilities(...)"
\* on a bare dict raises, as in the interview
DoctorInitialUpdate ==
  /\ pc = "start"
  /\ \E call \in Answered(UpdateResponses, ErrorResponse) :
       IF call.raised
       THEN /\ Raise
            /\ UNCHANGED <<doctor, current_probs, results>>
       ELSE
       \E ret \in {GPTDoctorUpdateProbabilities(doctor, call.content,
                                                <<"vignette">>, TRUE,
                                                max_diseases)} :
           /\ doctor' = ret.self
           /\ IF ret.pair
              THEN /\ current_probs' = ret.probabilities
                   /\ results' =
                        [results EXCEPT
                           !.diagnoses = Track(@, [turn |-> 0]),
                           !.ground_truth_rank =
                              GroundTruthRank(ret.probabilities),
                           !.ground_truth_rank_history =
                              Append(@, GroundTruthRank(ret.probabilities))]
                   /\ pc' = "loop"
              ELSE /\ Raise
                   /\ UNCHANGED <<current_probs, results>>
  /\ UNCHANGED questions_asked
  /\ DoctorUnchanged

\* One entry of the while loop, lines 93-150: the loop test, the next
\* question, the patient's answer, the update and the test of confidence
DoctorAsk ==
  /\ pc = "loop"
  /\ IF ~(questions_asked < max_questions)
     THEN /\ pc' = "final"
          /\ UNCHANGED <<doctor, current_probs, results, questions_asked>>
     ELSE
     /\ questions_asked' = questions_asked + 1
     /\ \E asked \in Answered(QuestionResponses, ErrorText),
           patient \in OracleCalls(IF oracle_up THEN Answers ELSE {},
                                   ErrorText, ~oracle_up),
           call \in Answered(UpdateResponses, ErrorResponse) :
          IF asked.raised \/ patient.raised \/ call.raised
          THEN /\ Raise
               /\ UNCHANGED <<doctor, current_probs, results>>
          ELSE
          \E question \in {generate_next_question(asked.content)},
             patient_response \in {patient.content} :
          \E ret \in {GPTDoctorUpdateProbabilities(
                         doctor, call.content,
                         <<"Question:", question, patient_response>>, TRUE,
                         max_diseases)},
             interaction \in {[turn |-> questions_asked + 1,
                               question |-> question,
                               patient_response |-> patient_response]} :
            /\ doctor' = ret.self
            /\ IF ~ret.pair
               THEN /\ Raise
                    /\ results' = [results EXCEPT !.interaction_history =
                                     Append(@, interaction)]
                    /\ UNCHANGED current_probs
               ELSE /\ current_probs' = ret.probabilities
                    /\ results' =
                         [results EXCEPT
                            !.interaction_history = Append(@, interaction),
                            !.ground_truth_rank =
                               GroundTruthRank(ret.probabilities),
                            !.ground_truth_rank_history =
                               Append(@, GroundTruthRank(ret.probabilities)),
                            !.diagnoses = Track(@, interaction),
                            !.confident_diagnosis =
                               @ \/ TopIsConfident(ret.probabilities)]
                    /\ pc' = IF TopIsConfident(ret.probabilities)
                             THEN "final" ELSE "loop"
  /\ DoctorUnchanged

\* Lines 152-172: the final diagnosis and the returned results
DoctorFinalize ==
  /\ pc = "final"
  /\ \E top \in {TopItem(current_probs)} :
       results' = [results EXCEPT
                     !.questions_asked = questions_asked,
                     !.final_diagnosis = top[1],
                     !.final_probability = <<top[2], current_probs.den>>,
                     !.correct_diagnosis = MatchesGroundTruth(top[1])]
  /\ pc' = "done"
  /\ UNCHANGED <<doctor, current_probs, questions_asked>>
  /\ DoctorUnchanged

NextDoctor ==
  \/ DoctorInitialUpdate
  \/ DoctorAsk
  \/ DoctorFinalize

DoctorSpec == InitDoctor /\ [][NextDoctor]_vars

(***************************************************************************)
(* Properties of the interview.                                            *)
(***************************************************************************)
\* The interview holds a belief state: the initial update has returned
HasBelief == pc \in {"loop", "evaluate", "select", "final", "done"}

NarrowingEvents == results.narrowing_events

\* A narrowing happens in this step
Narrows == Len(results'.narrowing_events) > Len(results.narrowing_events)

\* C1: every belief state held in current_probs (after the initial update,
\* after every real-answer update with its restriction to the focused
\* diseases, after every narrowing) sums to 1.0, whatever the Oracle returns.
\* Stated for the belief states that follow an update whose own result sums
\* to 1.0: the sum is then the interview's to keep.
C1_BeliefSumsToOne ==
  (HasBelief /\ SumsToOne(diagnoser.previous_probabilities))
    => SumsToOne(current_probs)

\* C2: update_probabilities returns, for every response and every
\* num_diseases >= 1, probabilities that sum to exactly 1.0.  The diagnoser
\* keeps what its last update returned in previous_probabilities.
C2_UpdateReturnsSumOne ==
  Len(diagnoser.patient_info) > 0 => SumsToOne(diagnoser.previous_probabilities)

\* C3: every narrowing retains at least 1 diagnosis and strictly fewer than
\* there were before it (so it never fires on a belief state of size 1), and
\* the belief state is never empty.
C3_NarrowingKeepsFewerNotNone ==
  /\ \A k \in 1..Len(NarrowingEvents) :
       /\ NarrowingEvents[k].diseases_after >= 1
       /\ NarrowingEvents[k].diseases_after < NarrowingEvents[k].diseases_before
       /\ Len(NarrowingEvents[k].focused_diseases)
            = NarrowingEvents[k].diseases_after
  /\ HasBelief => /\ Len(current_probs.items) >= 1
                  /\ Len(focused_diseases) >= 1

\* A narrowing has cut three diagnoses to the floor of one
C3_Witness ==
  \E k \in 1..Len(NarrowingEvents) :
    /\ NarrowingEvents[k].diseases_before = 3
    /\ NarrowingEvents[k].diseases_after = 1

\* ign_result["ground_truth_narrowed_out"] as save_incremental_results reads
\* it: the key may be missing
GroundTruthNarrowedOut(r) ==
  /\ "ground_truth_narrowed_out" \in DOMAIN r
  /\ r.ground_truth_narrowed_out

\* C4: whenever a narrowing evicts the ground-truth label from the retained
\* set, the result's ground_truth_narrowed_out becomes true.
C4_EvictionIsRecorded ==
  [][(/\ Narrows
      /\ \E d \in KeySet(current_probs.items) :
           /\ MatchesGroundTruth(d)
           /\ \A i \in 1..Len(focused_diseases') : focused_diseases'[i] # d)
     => GroundTruthNarrowedOut(results')]_vars

\* The questions of the trace: turn 0 is the initial update
AskedAt(t) == results.diagnoses[t + 1].question

\* C5: a question is asked twice only if the pool was regenerated in between,
\* that is if a narrowing happened at a loop entry after the first time and
\* before the second one.
C5_NoQuestionAskedTwice ==
  \A t1, t2 \in 1..(Len(results.diagnoses) - 1) :
    (t1 < t2 /\ AskedAt(t1) = AskedAt(t2))
      => \E k \in 1..Len(NarrowingEvents) :
           /\ t1 <= NarrowingEvents[k].turn
           /\ NarrowingEvents[k].turn < t2

\* Two questions were asked from one pool that holds a question twice
C5_Witness ==
  /\ Len(results.diagnoses) = 3
  /\ Len(NarrowingEvents) = 0
  /\ \E i, j \in 1..Len(question_set) : i < j /\ question_set[i] = question_set[j]

\* The run of C6: max_questions = 3, turns_before_narrowing = 1, and 4
\* candidate diagnoses after the initial update, which returns max_diseases
\* of them
C6_Run ==
  /\ pc = "done"
  /\ max_questions = 3
  /\ turns_before_narrowing = 1
  /\ max_diseases = 4

C7_NoExceptionWhenOracleDown == ~oracle_up => pc # "raised"

\* C8: an exception raised while evaluating one candidate question does not
\* abort the interview, however many candidates the turn has.
C8_EvaluationFailureIsCaught ==
  [][pc = "evaluate" => pc' # "raised"]_vars

\* C9: the evaluations of the candidate questions leave current_probs and the
\* diagnoser's patient_info, previous_probabilities and base_diseases as they
\* were.
C9_EvaluationLeavesStateAlone ==
  [][pc = "evaluate"
       => /\ current_probs' = current_probs
          /\ diagnoser' = diagnoser]_vars

\* C10: a narrowing happens exactly at the loop entries where the loop goes
\* on (more than 1 diagnosis, questions_asked < max_questions) and
\* questions_asked is turns_before_narrowing plus an even number: never
\* earlier, never at an odd offset, and at most once for a value of
\* questions_asked.
C10_NarrowingSchedule ==
  /\ [][Narrows <=>
          /\ pc = "loop"
          /\ Len(current_probs.items) > 1
          /\ questions_asked < max_questions
          /\ questions_asked >= turns_before_narrowing
          /\ (questions_asked - turns_before_narrowing) % 2 = 0]_vars
  /\ [](\A j, k \in 1..Len(NarrowingEvents) :
          j < k => NarrowingEvents[j].turn < NarrowingEvents[k].turn)

\* Two narrowings, at turns_before_narrowing and two questions later
C10_Witness ==
  /\ Len(NarrowingEvents) = 2
  /\ NarrowingEvents[1].turn = turns_before_narrowing
  /\ NarrowingEvents[2].turn = turns_before_narrowing + 2

\* C11: when a narrowing retains exactly 1 diagnosis, it is the last
\* narrowing, no question is asked after it, and the run returns
\* confident_diagnosis = true with that diagnosis as final_diagnosis.
C11_SingleDiagnosisEndsTheRun ==
  \A k \in 1..Len(NarrowingEvents) :
    NarrowingEvents[k].diseases_after = 1
      => /\ k = Len(NarrowingEvents)
         /\ pc \in {"final", "done"}
         /\ questions_asked = NarrowingEvents[k].turn
         /\ results.confident_diagnosis
         /\ pc = "done"
              => /\ results.questions_asked = NarrowingEvents[k].turn
                 /\ results.final_diagnosis
                      = NarrowingEvents[k].focused_diseases[1]

\* A run has returned after its second narrowing left one diagnosis
C11_Witness ==
  /\ pc = "done"
  /\ Len(NarrowingEvents) = 2
  /\ NarrowingEvents[2].diseases_after = 1

\* C12: a candidate question whose scenario sampling returned an empty
\* mapping is never asked in preference to one that has scenarios, and no
\* question is asked in a turn where no candidate has scenarios: the question
\* asked is one of a candidate with scenarios.
C12_AskedQuestionHasScenarios ==
  [][(pc = "select" /\ questions_asked' = questions_asked + 1)
       => \E i \in 1..Len(futures) :
            /\ futures[i].scenario_count > 0
            /\ asked_questions' = asked_questions \cup {futures[i].question}]_vars

\* C16: in a turn with at least one evaluated candidate, the question asked
\* is one whose gain is at least that of every other result, the first
\* collected among equals, whatever the sign of the gains.
C16_AsksTheFirstLargestGain ==
  [][(pc = "select" /\ Len(question_info_gains) > 0)
       => \E i \in 1..Len(question_info_gains) :
            /\ \A j \in 1..Len(question_info_gains) :
                 question_info_gains[j][2] <= question_info_gains[i][2]
            /\ \A j \in 1..(i - 1) :
                 question_info_gains[j][2] < question_info_gains[i][2]
            /\ questions_asked' = questions_asked + 1
            /\ asked_questions'
                 = asked_questions \cup {question_info_gains[i][1]}]_vars

\* The results of a turn are in: none has a positive gain, and the second
\* collected has a larger gain than the first
C16_Witness ==
  /\ pc = "select"
  /\ Len(question_info_gains) >= 2
  /\ \A j \in 1..Len(question_info_gains) : question_info_gains[j][2] <= 0
  /\ question_info_gains[2][2] > question_info_gains[1][2]

\* One diagnosis has probability 1.0 and the others 0
IsCertain(p) ==
  \E i \in 1..Len(p.items) :
    /\ p.items[i][2] = p.den
    /\ \A j \in 1..Len(p.items) : j # i => p.items[j][2] = 0

\* C17: the entropy of every belief state of the interview is >= 0, and it is
\* 0 if and only if one diagnosis has probability 1.0.
C17_EntropyZeroIffCertain ==
  HasBelief =>
    /\ calculate_entropy(current_probs) >= 0
    /\ calculate_entropy(current_probs) = 0 <=> IsCertain(current_probs)

\* C18: the run ends (it returns or raises); an iteration of the loop leaves
\* the loop or asks exactly one question; the loop body runs only with more
\* than 1 diagnosis and questions_asked < max_questions; and questions_asked
\* never exceeds max_questions.
C18_Terminates ==
  /\ <>(pc \in {"done", "raised"})
  /\ [][pc = "select"
          => \/ pc' \in {"final", "raised"} /\ questions_asked' <= questions_asked + 1
             \/ pc' = "loop" /\ questions_asked' = questions_asked + 1]_vars
  /\ [][pc' = "loop" => pc \in {"start", "select"}]_vars
  /\ [](pc \in {"evaluate", "select"}
          => /\ Len(current_probs.items) > 1
             /\ questions_asked < max_questions)
  /\ [](/\ questions_asked <= max_questions
        /\ results.questions_asked <= max_questions)

\* A run has returned with max_questions questions asked, three of them
C18_Witness ==
  /\ pc = "done"
  /\ max_questions = MaxQuestions
  /\ results.questions_asked = max_questions

\* C19: call_completion_api never raises when the completion service fails:
\* the call returns, and the content of what it returns is the sentinel text.
\* So with the Oracle down no request of the interview raises, and the first
\* update of the diagnoser runs to its end on the sentinel: it records the
\* vignette and leaves the belief computed from a response without any
\* diagnosis line.
C19_FailureBecomesSentinel ==
  /\ ~call_completion_api(Failure, ErrorText).raised
  /\ call_completion_api(Failure, ErrorText).content = ErrorText
  /\ \A call \in Answered(UpdateResponses, ErrorResponse)
                 \cup Answered(HypotheticalResponses, ErrorResponse) :
        ~call.raised
  /\ (~oracle_up /\ pc # "start")
       => /\ diagnoser.patient_info = <<"vignette">>
          /\ diagnoser.previous_probabilities =
               ComputeProbabilities(ErrorResponse, max_diseases)

\* The Oracle is down and the first update of the diagnoser is over
C19_Witness ==
  /\ ~oracle_up
  /\ pc # "start"
  /\ Len(diagnoser.patient_info) = 1

\* C20: every narrowing, the one that leaves a single diagnosis included,
\* makes the belief state the retained max(1, n // 2) entries: an interview
\* whose last narrowing retained one diagnosis goes to its final diagnosis
\* with a belief state of one entry and reports final_disease_count = 1.
C20_NarrowedToOneCountsOne ==
  (/\ pc \in {"final", "done"}
   /\ NarrowingEvents # << >>
   /\ NarrowingEvents[Len(NarrowingEvents)].diseases_after = 1)
    => /\ Len(current_probs.items) = 1
       /\ pc = "done" => results.final_disease_count = 1

\* C21: on every narrowing each retained diagnosis has, in the belief state
\* just before the narrowing, a probability greater than or equal to that of
\* every evicted diagnosis; the retained diagnoses are diagnoses of that belief
\* state.
C21_RetainedOutrankEvicted ==
  [][Narrows
       => LET event == results'.narrowing_events[Len(results'.narrowing_events)]
              before == KeySet(current_probs.items)
              retained == {event.focused_diseases[i] :
                             i \in 1..Len(event.focused_diseases)}
          IN  /\ retained \subseteq before
              /\ Cardinality(retained) = event.diseases_after
              /\ \A r \in retained : \A e \in before \ retained :
                    Get(current_probs.items, r, 0)
                      >= Get(current_probs.items, e, 0)]_vars

\* The first narrowing, at turn 0, has evicted the diagnosis the Oracle listed
\* first, which was less probable than a retained one
C21_Witness ==
  /\ questions_asked = 0
  /\ Len(NarrowingEvents) = 1
  /\ Len(diagnoser.previous_probabilities.items) >= 2
  /\ LET first == diagnoser.previous_probabilities.items[1]
         kept == NarrowingEvents[1].focused_diseases
     IN  /\ \A i \in 1..Len(kept) : kept[i] # first[1]
         /\ first[2] < Get(diagnoser.previous_probabilities.items, kept[1], 0)

\* The questions of a pool
Questions(pool) == {pool[i] : i \in 1..Len(pool)}

\* C22: after every narrowing that leaves more than one diagnosis the pool is
\* the list of questions generated for the retained diagnoses and the set of
\* asked questions is empty: the questions submitted for evaluation are those
\* of the new pool, and none of them is a question of the previous pool that
\* was not generated again.
C22_NarrowingReplacesThePool ==
  [][(/\ Narrows
      /\ results'.narrowing_events[Len(results'.narrowing_events)]
            .diseases_after > 1)
       => /\ asked_questions' = {}
          /\ \E lines \in GenerationResponses \cup {<<ErrorText>>} :
               question_set' = GenerateCategoryQuestions(lines)
          /\ \A i \in 1..Len(futures') :
               /\ futures'[i].question \in Questions(question_set')
               /\ futures'[i].question \in Questions(question_set)
                    => \E lines \in GenerationResponses \cup {<<ErrorText>>} :
                         futures'[i].question
                           \in Questions(GenerateCategoryQuestions(lines))
          /\ Questions(question_set') = {futures'[i].question :
                                           i \in 1..Len(futures')}]_vars

\* After a question of the first pool was asked, a narrowing has left two
\* diagnoses and a pool of two generated questions, none of them asked
C22_Witness ==
  /\ pc = "evaluate"
  /\ NarrowingEvents # << >>
  /\ NarrowingEvents[Len(NarrowingEvents)].diseases_after = 2
  /\ NarrowingEvents[Len(NarrowingEvents)].turn = questions_asked
  /\ questions_asked >= 1
  /\ question_set = <<"f1", "f2">>
  /\ asked_questions = {}
  /\ Len(futures) = 2

\* C23: results["diagnoses"] is append-only.  While the interview runs and
\* when it returns, the trace holds one record for turn 0 and one per asked
\* question, with the turns 0, 1, ..., questions_asked in order; a step adds
\* at most one record at the end and changes no earlier record; the first
\* record is the one of turn 0; a question asked adds exactly one record.
C23_TraceIsAppendOnly ==
  /\ [](HasBelief
          => /\ Len(results.diagnoses) = questions_asked + 1
             /\ \A k \in 1..Len(results.diagnoses) :
                  results.diagnoses[k].turn = k - 1)
  /\ [](pc = "done"
          => Len(results.diagnoses) = results.questions_asked + 1)
  /\ [][/\ Len(results'.diagnoses) >= Len(results.diagnoses)
        /\ Len(results'.diagnoses) <= Len(results.diagnoses) + 1
        /\ SubSeq(results'.diagnoses, 1, Len(results.diagnoses))
             = results.diagnoses
        /\ (pc = "start" /\ pc' = "loop")
             => results'.diagnoses = <<[turn |-> 0]>>
        /\ (questions_asked' = questions_asked + 1 /\ pc' = "loop")
             => /\ Len(results'.diagnoses) = Len(results.diagnoses) + 1
                /\ results'.diagnoses[Len(results'.diagnoses)].turn
                     = questions_asked']_vars

\* An interview has returned after three questions with a trace of four
\* records
C23_Witness ==
  /\ pc = "done"
  /\ results.questions_asked = 3
  /\ Len(results.diagnoses) = 4
  /\ Len(NarrowingEvents) >= 1

\* C24: the tracked diagnosis set only shrinks.  After the initial update a
\* step never adds a label to the belief state, and the label set of the
\* belief state is the current focused set and has at most max_diseases
\* labels.
C24_BeliefIsTheFocusedSet ==
  /\ [](HasBelief
          => /\ KeySet(current_probs.items)
                  = {focused_diseases[i] : i \in 1..Len(focused_diseases)}
             /\ Len(current_probs.items) <= max_diseases)
  /\ [][HasBelief
          => KeySet(current_probs'.items) \subseteq KeySet(current_probs.items)
       ]_vars

\* C26: the real belief state has a single sequential writer.  The
\* diagnoser's context is the vignette followed by one question/answer text
\* per asked question, in ask order, each the question and the patient
\* response of that turn's record; the context and the belief state change
\* only in the initial update, in the update that follows a question (which
\* adds that question with the one response obtained for it) and, for the
\* belief state, in a narrowing: never while candidate questions are
\* evaluated.
C26_OneUpdatePerQuestion ==
  /\ [](pc # "start"
          => /\ Len(diagnoser.patient_info) = questions_asked + 1
             /\ diagnoser.patient_info[1] = "vignette"
             /\ \A k \in 2..Len(results.diagnoses) :
                  diagnoser.patient_info[k]
                    = <<results.diagnoses[k].question,
                        results.diagnoses[k].patient_response>>)
  /\ [][(pc # "start"
         /\ diagnoser'.patient_info # diagnoser.patient_info)
          => /\ pc = "select"
             /\ questions_asked' = questions_asked + 1
             /\ \E a \in Answers \cup {ErrorText} :
                  diagnoser'.patient_info
                    = Append(diagnoser.patient_info,
                             <<BestQuestion(question_info_gains)[1], a>>)
             /\ asked_questions'
                  = asked_questions
                      \cup {BestQuestion(question_info_gains)[1]}]_vars
  /\ [][pc = "evaluate"
          => /\ current_probs' = current_probs
             /\ diagnoser'.patient_info = diagnoser.patient_info
             /\ diagnoser'.previous_probabilities
                  = diagnoser.previous_probabilities
             /\ questions_asked' = questions_asked]_vars

\* An interview has returned after two questions: the context holds the
\* vignette and the two question/answer texts
C26_Witness ==
  /\ pc = "done"
  /\ results.questions_asked = 2
  /\ Len(diagnoser.patient_info) = 3
  /\ diagnoser.patient_info[2][1] # diagnoser.patient_info[3][1]

\* C29: the recorded narrowing events form a chain.  Each event has
\* diseases_after = max(1, diseases_before // 2) < diseases_before; the
\* diseases_before of an event is the diseases_after of the event before it,
\* and the turns of the events strictly increase; the first event starts from
\* the size of the initial belief state, which no step changes before the
\* first narrowing; the returned narrowing_steps is the number of events.
C29_NarrowingEventsFormAChain ==
  /\ [](/\ \A k \in 1..Len(NarrowingEvents) :
            /\ NarrowingEvents[k].diseases_after
                 = (IF NarrowingEvents[k].diseases_before \div 2 > 1
                    THEN NarrowingEvents[k].diseases_before \div 2 ELSE 1)
            /\ NarrowingEvents[k].diseases_after
                 < NarrowingEvents[k].diseases_before
        /\ \A k \in 2..Len(NarrowingEvents) :
            /\ NarrowingEvents[k].diseases_before
                 = NarrowingEvents[k - 1].diseases_after
            /\ NarrowingEvents[k].turn > NarrowingEvents[k - 1].turn
        /\ "narrowing_steps" \in DOMAIN results
             => results.narrowing_steps = Len(NarrowingEvents))
  /\ [][/\ (HasBelief /\ results'.narrowing_events = << >>)
             => Len(current_probs'.items) = Len(current_probs.items)
        /\ Narrows
             => /\ Len(results'.narrowing_events) = Len(NarrowingEvents) + 1
                /\ results'.narrowing_events[Len(results'.narrowing_events)]
                     .diseases_before = Len(current_probs.items)
                /\ results'.narrowing_events[Len(results'.narrowing_events)]
                     .turn = questions_asked]_vars

\* An interview has returned with two narrowing events, four diagnoses cut
\* to two and then to one
C29_Witness ==
  /\ pc = "done"
  /\ results.narrowing_steps = 2
  /\ Len(NarrowingEvents) = 2
  /\ NarrowingEvents[1].diseases_before = 4
  /\ NarrowingEvents[1].diseases_after = 2
  /\ NarrowingEvents[2].diseases_before = 2
  /\ NarrowingEvents[2].diseases_after = 1

(***************************************************************************)
(* Properties of update_probabilities.                                     *)
(***************************************************************************)
\* update_probabilities has returned
Returned == pc = "returned"

\* The well-formed lines of the response: label -> probability in units of
\* 1/ProbScale, in the order of the labels' first lines
Extracted == ParseLines(<< >>, update_response.lines)

\* C13: with k < num_diseases labels extracted, update_probabilities returns
\* exactly num_diseases labels: the k extracted ones, then the first
\* num_diseases - k labels of the fallback list that are not among them, each
\* added at 0.0001 before the last normalization, for every num_diseases.
C13_PadsToNumDiseases ==
  (Returned /\ Len(Extracted) < max_diseases) =>
    LET k == Len(Extracted)
        missing == SelectSeq(POTENTIAL_SKIN_DIAGNOSES,
                             LAMBDA d : ~Has(Extracted, d))
        one == IF SumW(Extracted) > 0 THEN PadDen ELSE 0
    IN  /\ Len(current_probs.items) = max_diseases
        /\ Keys(current_probs.items)
             = Keys(Extracted) \o SubSeq(missing, 1, max_diseases - k)
        /\ \A i \in (k + 1)..max_diseases :
             current_probs.items[i][2] * (one + max_diseases - k)
               = current_probs.den

\* C14: with more than num_diseases labels extracted, update_probabilities
\* returns exactly num_diseases of them, none less probable in the response
\* than a label it leaves out.
C14_KeepsTheMostProbable ==
  (Returned /\ Len(Extracted) > max_diseases) =>
    /\ Len(current_probs.items) = max_diseases
    /\ \A i \in 1..Len(Extracted) :
         Has(current_probs.items, Extracted[i][1])
           \/ \A j \in 1..Len(current_probs.items) :
                Get(Extracted, current_probs.items[j][1], -1) >= Extracted[i][2]

\* Three labels were extracted for num_diseases = 2 and the first one listed
\* is left out
C14_Witness ==
  /\ Returned
  /\ Len(Extracted) = 3
  /\ max_diseases = 2
  /\ ~Has(current_probs.items, Extracted[1][1])

\* C15: with exactly num_diseases labels extracted, of probabilities p that
\* sum to S > 0, update_probabilities returns the same labels in the same
\* order, each with p / S; so an input that sums to 1.0 is returned as it is.
C15_DividesBySum ==
  (Returned /\ Len(Extracted) = max_diseases /\ SumW(Extracted) > 0) =>
    /\ Keys(current_probs.items) = Keys(Extracted)
    /\ \A i \in 1..Len(Extracted) :
         current_probs.items[i][2] * SumW(Extracted)
           = Extracted[i][2] * current_probs.den

\* Two labels were extracted for num_diseases = 2, at 1.0 and 0.5
C15_Witness ==
  /\ Returned
  /\ max_diseases = 2
  /\ Len(Extracted) = 2
  /\ Extracted[1][2] = ProbScale
  /\ 2 * Extracted[2][2] = ProbScale

(***************************************************************************)
(* Properties of calculate_scenario_probabilities.                         *)
(***************************************************************************)
\* A line the specification calls well-formed: one pipe, and a probability
\* that is a float
WellFormed(line) == line.pipes = 1 /\ line.isfloat

RECURSIVE FirstOccurrences(_, _)
\* The well-formed lines as scenario -> probability, a repeated text keeping
\* its first probability
FirstOccurrences(scenarios, lines) ==
  IF Len(lines) = 0 THEN scenarios
  ELSE FirstOccurrences(
         IF WellFormed(lines[1]) /\ ~Has(scenarios, lines[1].scenario)
         THEN Append(scenarios, <<lines[1].scenario, lines[1].prob>>)
         ELSE scenarios,
         Tail(lines))

\* C25: calculate_scenario_probabilities never raises on Oracle output: a
\* malformed line (probability not a float, or more than one pipe) is dropped,
\* a repeated answer text keeps the probability of its first occurrence, and
\* the well-formed lines are all returned.
C25_SamplingDropsMalformedLines ==
  pc = "sampled"
    => /\ ~scenario_probs.raised
       /\ scenario_probs.scenarios = FirstOccurrences(<< >>, scenario_response)

(***************************************************************************)
(* Properties of compare_approaches.                                       *)
(***************************************************************************)
\* C27: with the cases processed in parallel, when the rankings are computed
\* ign_results[i] and gpt_results[i] are the results produced for cases[i],
\* for every case and every order of completion of the case tasks.
C27_ResultsPairedWithTheirCase ==
  pc = "ranked"
    => /\ Len(ign_results) = Len(case_tasks)
       /\ Len(gpt_results) = Len(case_tasks)
       /\ \A i \in 1..Len(case_tasks) :
            /\ ign_results[i] = CaseResult(i)
            /\ gpt_results[i] = CaseResult(i)

\* Every case task is over and none has failed
AllCasesSaved ==
  /\ case_tasks # << >>
  /\ \A i \in 1..Len(case_tasks) :
       case_tasks[i].pc \in {"finished", "collected"}

\* C28: once all case tasks have finished there is a single incremental
\* summary file, and it holds exactly one entry for every processed case,
\* whatever the interleaving of the save_incremental_results calls.
C28_SummaryHoldsEveryCase ==
  AllCasesSaved
    => \E t \in 1..MaxClock :
         /\ \A u \in 1..MaxClock :
              u # t => files.summary[u].state = "absent"
         /\ files.summary[t].state = "json"
         /\ Len(files.summary[t].cases) = Len(case_tasks)
         /\ \A i \in 1..Len(case_tasks) :
              \E k \in 1..Len(files.summary[t].cases) :
                files.summary[t].cases[k] = i

(***************************************************************************)
(* Properties of run_gpt_doctor_benchmark.                                 *)
(***************************************************************************)
\* C30: run_gpt_doctor_benchmark with max_questions >= 1 returns having
\* asked between 1 and max_questions questions; it asks a further question
\* only while no update that followed a question had a top probability at or
\* above confidence_threshold, and it stops short of max_questions only on
\* such an update; confident_diagnosis is true exactly when the final top
\* probability is at or above the threshold; ground_truth_rank_history has
\* questions_asked + 1 entries.
C30_DoctorStopsWhenConfident ==
  /\ []((pc = "done" /\ max_questions >= 1)
          => /\ results.questions_asked >= 1
             /\ results.questions_asked <= max_questions
             /\ results.confident_diagnosis
                  <=> AtLeastThreshold(results.final_probability[1],
                                       results.final_probability[2])
             /\ ~results.confident_diagnosis
                  => results.questions_asked = max_questions
             /\ Len(results.ground_truth_rank_history)
                  = results.questions_asked + 1)
  /\ [][questions_asked' > questions_asked
          => \/ questions_asked = 0
             \/ ~AtLeastThreshold(TopItem(current_probs)[2],
                                  current_probs.den)]_vars

\* The doctor has returned confident after two questions of the three it
\* could ask
C30_Witness ==
  /\ pc = "done"
  /\ max_questions = 3
  /\ results.questions_asked = 2
  /\ results.confident_diagnosis
  /\ Len(results.ground_truth_rank_history) = 3

====
